---- MODULE Spec2Model ----
(***************************************************************************)
(* Run orchestration of sad-cli: main.py (text -> Piper TTS -> SadTalker), *)
(* cli.py (supplied audio -> SadTalker) and src/piper_tts.py (speak).      *)
(*                                                                         *)
(* Python strings that the code inspects (strip, isdigit, int, startswith, *)
(* membership in an option table) are sequences of one-character strings.  *)
(* Paths are sequences of path components.  An environment variable is     *)
(* <<>> when unset and <<s>> when set to the string s.                      *)
(*                                                                         *)
(* Spec      one run of main.py, cli.py or speak                           *)
(* FairSpec  the same, where processes exit and prompts are answered       *)
(* SpecRuns  two runs of main.py against one results root                  *)
(* SpecSetup setup.py                                                      *)
(***************************************************************************)
EXTENDS Integers, Sequences, FiniteSets, TLC

VARIABLES
    entry,        \* which program runs: "main" (main.py), "cli" (cli.py), "speak" (a direct call of speak)
    env,          \* the process environment read by config.py at import
    pc,           \* position in the entry point's code
    value,        \* the line most recently read by a prompt loop, stripped (`value`, `raw`)
    text,         \* main.py `text`; the `text` argument of speak
    voice_model,  \* main.py `voice_model`; the `voice_model` argument of speak
    avatar_path,  \* main.py `avatar_path`, cli.py `image_path`
    audio_path,   \* cli.py `audio_path`, main.py `wav_path`, speak `output_wav_path`
    preprocess,   \* resolved preprocessing mode
    size,         \* resolved resolution
    enhancer,     \* resolved enhancer ("" stands for Python's None)
    batch_size,   \* resolved batch size
    still,        \* the still flag
    run_id,       \* str(uuid.uuid4())
    dirs,         \* directories that exist under the project root
    files,        \* files the run has found to exist or has written: path -> [size, mtime]
    tts,          \* the piper process: "none", "running", "exited", "notfound"
    tts_rc,       \* its exit status
    tts_text,     \* the text argument it was started with
    anim,         \* the inference process: "none", "running", "exited", "notfound"
    anim_rc,      \* its exit status
    cmd,          \* the arguments the inference process was started with
    error,        \* the exception that ended the run, "" when none
    reported,     \* the video path printed at the end, <<>> when none
    trace,        \* stages visited so far
    ttsCalls,     \* number of times the piper process was started
    animCalls,    \* number of times the inference process was started
    tts_stderr,   \* what the piper process wrote to its standard error
    anim_stderr,  \* what the inference process wrote to its standard error
    error_info,   \* what the exception that ended the run carries
    runs,         \* concurrent runs against one results root: run -> its locals
    accesses,     \* what each concurrent run has created, written, read, removed or reported
    setup         \* setup.py: the position and locals of SadTalkerSetup

vars == <<entry, env, pc, value, text, voice_model, avatar_path, audio_path,
          preprocess, size, enhancer, batch_size, still, run_id, dirs, files,
          tts, tts_rc, tts_text, anim, anim_rc, cmd, error, reported, trace,
          ttsCalls, animCalls, tts_stderr, anim_stderr, error_info, runs,
          accesses, setup>>

\* The state of concurrent runs and of setup.py, which one run leaves alone.
otherVars == <<runs, accesses, setup>>
\* What the external processes printed and what the exception carries.
stderrVars == <<tts_stderr, anim_stderr, error_info>>

----------------------------------------------------------------------------
(* Bounds of the model *)

\* File sizes range over 0..MaxFileSize.
MaxFileSize == 2
\* The animation engine writes videos with modification times in 1..MaxVideos.
MaxVideos == 2
\* At most MaxOverrides of the configuration variables are set in the environment.
MaxOverrides == 1

----------------------------------------------------------------------------
(* Python string operations *)

Digits == {"0", "1", "2", "3", "4", "5", "6", "7", "8", "9"}

RECURSIVE lstrip(_, _)
lstrip(s, c) ==
    IF s # <<>> /\ Head(s) = c THEN lstrip(Tail(s), c) ELSE s

RECURSIVE rstrip(_, _)
rstrip(s, c) ==
    IF s # <<>> /\ s[Len(s)] = c THEN rstrip(SubSeq(s, 1, Len(s) - 1), c) ELSE s

\* str.strip(c): drop leading and trailing occurrences of the character c
strip_char(s, c) == rstrip(lstrip(s, c), c)

\* str.strip(): drop leading and trailing whitespace
strip(s) == strip_char(s, " ")

\* str.isdigit(): non-empty and every character a digit
isdigit(s) == s # <<>> /\ \A i \in 1..Len(s) : s[i] \in Digits

DigitVal(c) ==
    CASE c = "0" -> 0 [] c = "1" -> 1 [] c = "2" -> 2 [] c = "3" -> 3
      [] c = "4" -> 4 [] c = "5" -> 5 [] c = "6" -> 6 [] c = "7" -> 7
      [] c = "8" -> 8 [] c = "9" -> 9

\* int(s) for a string of digits
RECURSIVE int(_)
int(s) ==
    IF s = <<>> THEN 0
    ELSE 10 * int(SubSeq(s, 1, Len(s) - 1)) + DigitVal(s[Len(s)])

\* str.startswith(prefix)
startswith(s, prefix) ==
    Len(s) >= Len(prefix) /\ SubSeq(s, 1, Len(prefix)) = prefix

S_empty == <<>>
S_crop == <<"c", "r", "o", "p">>
S_full == <<"f", "u", "l", "l">>
S_extfull == <<"e", "x", "t", "f", "u", "l", "l">>
S_bogus == <<"x">>
S_gfpgan == <<"g", "f", "p", "g", "a", "n">>
S_256 == <<"2", "5", "6">>
S_512 == <<"5", "1", "2">>
S_1024 == <<"1", "0", "2", "4">>
S_0 == <<"0">>
S_1 == <<"1">>
S_2 == <<"2">>
S_3 == <<"3">>
S_4 == <<"4">>
S_hi == <<"h", "i">>

----------------------------------------------------------------------------
(* config.py *)

\* os.getenv(name, default)
getenv(e, default) == IF e = <<>> THEN default ELSE e[1]

\* Path(p).name
name(p) == p[Len(p)]

AVATAR_FACE == <<"models", "avatar_examples", "avatar.jpg">>
PIPER_VOICES_DIR == <<"models", "voices">>
PIPER_VOICE_MALE == PIPER_VOICES_DIR \o <<"pt_PT-tugao-medium.onnx">>
PIPER_VOICE_FEMALE == PIPER_VOICES_DIR \o <<"dii_pt-PT.onnx">>
PIPER_VOICE_DEFAULT == getenv(env.voice_default, PIPER_VOICE_FEMALE)
SADTALKER_PREPROCESS_DEFAULT == getenv(env.preprocess, S_crop)
SADTALKER_SIZE_DEFAULT == getenv(env.size, S_256)
SADTALKER_BATCH_SIZE_DEFAULT == getenv(env.batch_size, S_1)
SADTALKER_ENHANCER_DEFAULT == getenv(env.enhancer, S_empty)
RESULTS_DIR == <<"results">>

\* Values the environment may give each variable (<<>>: unset).
EnvPreprocess == {<<>>, <<S_full>>, <<S_extfull>>, <<S_bogus>>}
EnvSize == {<<>>, <<S_512>>, <<S_1024>>}
EnvEnhancer == {<<>>, <<S_gfpgan>>, <<S_bogus>>}
EnvBatchSize == {<<>>, <<S_0>>, <<S_4>>, <<S_bogus>>}
EnvVoiceDefault ==
    {<<>>, << <<"alt", "pt_PT-tugao-medium.onnx">> >>, << <<"alt", "other.onnx">> >>}

Overrides(e) == Cardinality({k \in DOMAIN e : e[k] # <<>>})

Environments ==
    {e \in [preprocess : EnvPreprocess, size : EnvSize, enhancer : EnvEnhancer,
            batch_size : EnvBatchSize, voice_default : EnvVoiceDefault] :
        Overrides(e) <= MaxOverrides}

\* cli.py and piper_tts.py do not import config.py: no variable is read.
NoEnvironment ==
    [preprocess |-> <<>>, size |-> <<>>, enhancer |-> <<>>,
     batch_size |-> <<>>, voice_default |-> <<>>]

----------------------------------------------------------------------------
(* What the user may type at each prompt *)

TextInputs == {<<>>, <<" ">>, S_hi, <<" ", "h", "i">>}
ChoiceInputs ==
    {<<>>, <<" ">>, S_0, S_1, S_2, S_3, <<" ", "2", " ">>, S_256, S_512, S_bogus}
BatchInputs == {<<>>, <<" ">>, S_0, S_2, <<" ", "2">>, S_bogus, <<"-", "1">>}
\* A one-character string names the file of that name in the working directory.
PathInputs == {<<>>, <<" ">>, <<"a">>, <<"\"", "a", "\"">>, <<"'", "a", "'", " ">>}

----------------------------------------------------------------------------
(* Prompt helpers (main.py and, verbatim, cli.py) *)

\* One iteration of prompt_path's loop on the line `raw`; `exists` is what
\* Path.exists() answers for the path typed.
prompt_path(raw, exists) ==
    LET v == strip_char(strip_char(strip(raw), "\""), "'")
    IN  IF v # <<>> /\ exists
        THEN [returned |-> TRUE, result |-> v, value |-> v]
        ELSE [returned |-> FALSE, result |-> v, value |-> v]

\* One iteration of prompt_choice's loop on the line `raw`.
prompt_choice(raw, choices, default) ==
    LET v == strip(raw)
    IN  IF v = <<>> THEN [returned |-> TRUE, result |-> default, value |-> v]
        ELSE IF v \in choices THEN [returned |-> TRUE, result |-> v, value |-> v]
        ELSE [returned |-> FALSE, result |-> v, value |-> v]

----------------------------------------------------------------------------
(* Paths and the file system *)

RunIds == {"uuid-1"}
\* time.strftime("%Y_%m_%d_%H.%M.%S", time.localtime())
timestamp == "2026_01_01_00.00.00"

\* os.path.dirname
dirname(p) == SubSeq(p, 1, Len(p) - 1)

\* p and every ancestor of p below the working directory (mkdir parents=True, os.makedirs)
WithParents(p) == {SubSeq(p, 1, n) : n \in 1..Len(p)}

\* p lies somewhere under directory d
IsUnder(p, d) == Len(p) > Len(d) /\ SubSeq(p, 1, Len(d)) = d

VideoNames == <<"a.mp4", "b.mp4", "c.mp4", "d.mp4">>
\* the names "*.mp4" matches
IsMp4(n) == \E i \in 1..Len(VideoNames) : VideoNames[i] = n

NoFiles == [p \in {} |-> [size |-> 0, mtime |-> 0]]
File(p, sz, t) == [q \in {p} |-> [size |-> sz, mtime |-> t]]
\* fs with the files of w written over it
Write(fs, w) == [q \in DOMAIN fs \cup DOMAIN w |-> IF q \in DOMAIN w THEN w[q] ELSE fs[q]]

\* os.path.exists(p) for a file
exists(fs, p) == p \in DOMAIN fs
\* os.path.getsize(p)
getsize(fs, p) == fs[p].size

----------------------------------------------------------------------------
(* Stages of a run, errors *)

\* An element of a command line: a literal word, or the value of a variable.
Word(w) == [word |-> w]
Val(v) == [val |-> v]

\* What the external processes may print on standard error.
Stderrs == {<<>>, <<"e", " ">>}

\* No exception, or one that carries neither a command line nor output.
NoErrorInfo == [cmd |-> <<>>, returncode |-> <<>>, stderr |-> <<>>]

\* The exception leaves the entry point: the process ends with a traceback.
Raise(e) ==
    /\ pc' = "failed"
    /\ error' = e
    /\ trace' = Append(trace, "Failed")

----------------------------------------------------------------------------
(* main.py: configuration *)

MainConfigVars == <<entry, env, run_id, dirs, files, tts, tts_rc, tts_text, anim,
                    anim_rc, cmd, error, reported, trace, ttsCalls, animCalls, audio_path>>

\* a text prompt that accepts no answer
MainTextNeverAccepts ==
    /\ entry = "main" /\ pc = "text"
    /\ \E raw \in TextInputs : text' = text /\ pc' = pc
    /\ UNCHANGED <<MainConfigVars, value, voice_model, avatar_path, preprocess,
                   size, enhancer, batch_size, still>>
    /\ UNCHANGED <<stderrVars, otherVars>>

\* lines 56-60
MainText ==
    /\ entry = "main" /\ pc = "text"
    /\ \E raw \in TextInputs :
          LET t == strip(raw)
          IN  IF t # <<>>
              THEN text' = t /\ pc' = "voice"
              ELSE text' = text /\ pc' = pc
    /\ UNCHANGED <<MainConfigVars, value, voice_model, avatar_path, preprocess,
                   size, enhancer, batch_size, still>>
    /\ UNCHANGED <<stderrVars, otherVars>>

\* the default choice found by comparing whole paths
piper_default_choice_by_path ==
    IF PIPER_VOICE_DEFAULT = PIPER_VOICE_MALE THEN S_1
    ELSE S_2

\* lines 63-71
piper_default_choice ==
    IF name(PIPER_VOICE_DEFAULT) = name(PIPER_VOICE_MALE) THEN S_1
    ELSE IF name(PIPER_VOICE_DEFAULT) = name(PIPER_VOICE_FEMALE) THEN S_2
    ELSE S_2

\* lines 73-78
MainVoice ==
    /\ entry = "main" /\ pc = "voice"
    /\ \E raw \in ChoiceInputs :
          LET r == prompt_choice(raw, {S_1, S_2}, piper_default_choice)
          IN  IF r.returned
              THEN /\ voice_model' = (IF r.result = S_1 THEN PIPER_VOICE_MALE
                                      ELSE PIPER_VOICE_FEMALE)
                   /\ value' = r.value
                   /\ pc' = "avatar"
              ELSE /\ voice_model' = voice_model
                   /\ value' = r.value
                   /\ pc' = pc
    /\ UNCHANGED <<MainConfigVars, text, avatar_path, preprocess, size, enhancer,
                   batch_size, still>>
    /\ UNCHANGED <<stderrVars, otherVars>>

\* lines 81-83: the default avatar exists or must be asked for
MainAvatar ==
    /\ entry = "main" /\ pc = "avatar"
    /\ avatar_path' = AVATAR_FACE
    /\ \E found \in BOOLEAN : pc' = (IF found THEN "preprocess" ELSE "avatar_prompt")
    /\ UNCHANGED <<MainConfigVars, value, text, voice_model, preprocess, size,
                   enhancer, batch_size, still>>
    /\ UNCHANGED <<stderrVars, otherVars>>

\* line 84
MainAvatarPrompt ==
    /\ entry = "main" /\ pc = "avatar_prompt"
    /\ \E raw \in PathInputs, found \in BOOLEAN :
          LET r == prompt_path(raw, found)
          IN  IF r.returned
              THEN avatar_path' = r.result /\ value' = r.value /\ pc' = "preprocess"
              ELSE avatar_path' = avatar_path /\ value' = r.value /\ pc' = pc
    /\ UNCHANGED <<MainConfigVars, text, voice_model, preprocess, size, enhancer,
                   batch_size, still>>
    /\ UNCHANGED <<stderrVars, otherVars>>

\* the preprocessing default taken from no configuration
preprocess_default_fixed == S_1

\* lines 87-91
preprocess_default_choice ==
    IF SADTALKER_PREPROCESS_DEFAULT = S_crop THEN S_1
    ELSE IF SADTALKER_PREPROCESS_DEFAULT = S_full THEN S_2
    ELSE S_3

\* lines 103-108 (cli.py 53-58)
PreprocessOf(choice) ==
    IF choice = S_1 THEN S_crop
    ELSE IF choice = S_2 THEN S_full
    ELSE S_extfull

\* lines 92-108
MainPreprocess ==
    /\ entry = "main" /\ pc = "preprocess"
    /\ \E raw \in ChoiceInputs :
          LET r == prompt_choice(raw, {S_1, S_2, S_3}, preprocess_default_choice)
          IN  IF r.returned
              THEN preprocess' = PreprocessOf(r.result) /\ value' = r.value /\ pc' = "size"
              ELSE preprocess' = preprocess /\ value' = r.value /\ pc' = pc
    /\ UNCHANGED <<MainConfigVars, text, voice_model, avatar_path, size, enhancer,
                   batch_size, still>>
    /\ UNCHANGED <<stderrVars, otherVars>>

\* the configured size used without the membership test
size_default_unchecked == SADTALKER_SIZE_DEFAULT

\* line 110
size_default_choice ==
    IF SADTALKER_SIZE_DEFAULT \in {S_256, S_512} THEN SADTALKER_SIZE_DEFAULT ELSE S_256

\* lines 111-116
MainSize ==
    /\ entry = "main" /\ pc = "size"
    /\ \E raw \in ChoiceInputs :
          LET r == prompt_choice(raw, {S_256, S_512}, size_default_choice)
          IN  IF r.returned
              THEN size' = r.result /\ value' = r.value /\ pc' = "enhancer"
              ELSE size' = size /\ value' = r.value /\ pc' = pc
    /\ UNCHANGED <<MainConfigVars, text, voice_model, avatar_path, preprocess,
                   enhancer, batch_size, still>>
    /\ UNCHANGED <<stderrVars, otherVars>>

\* line 118
enhancer_default_choice ==
    IF SADTALKER_ENHANCER_DEFAULT = S_gfpgan THEN S_2 ELSE S_1

\* line 124 (cli.py 79); <<>> is None
EnhancerOf(choice) == IF choice = S_2 THEN S_gfpgan ELSE <<>>

\* lines 119-124
MainEnhancer ==
    /\ entry = "main" /\ pc = "enhancer"
    /\ \E raw \in ChoiceInputs :
          LET r == prompt_choice(raw, {S_1, S_2}, enhancer_default_choice)
          IN  IF r.returned
              THEN enhancer' = EnhancerOf(r.result) /\ value' = r.value /\ pc' = "batch"
              ELSE enhancer' = enhancer /\ value' = r.value /\ pc' = pc
    /\ UNCHANGED <<MainConfigVars, text, voice_model, avatar_path, preprocess,
                   size, batch_size, still>>
    /\ UNCHANGED <<stderrVars, otherVars>>

\* line 126
batch_default ==
    IF isdigit(SADTALKER_BATCH_SIZE_DEFAULT) THEN SADTALKER_BATCH_SIZE_DEFAULT ELSE S_1

\* One iteration of the loop of lines 127-135 on the line `raw`.
prompt_batch(raw, default) ==
    LET v == strip(raw)
    IN  IF v = <<>> THEN [returned |-> TRUE, result |-> default, value |-> v]
        ELSE IF isdigit(v) /\ int(v) > 0
             THEN [returned |-> TRUE, result |-> v, value |-> v]
        ELSE [returned |-> FALSE, result |-> v, value |-> v]

\* line 137 (cli.py 82)
StillOf(mode) == startswith(mode, S_full)

\* lines 127-137
MainBatch ==
    /\ entry = "main" /\ pc = "batch"
    /\ \E raw \in BatchInputs :
          LET r == prompt_batch(raw, batch_default)
          IN  IF r.returned
              THEN /\ batch_size' = r.result
                   /\ still' = StillOf(preprocess)
                   /\ value' = r.value
                   /\ pc' = "workspace"
              ELSE /\ batch_size' = batch_size
                   /\ still' = still
                   /\ value' = r.value
                   /\ pc' = pc
    /\ UNCHANGED <<MainConfigVars, text, voice_model, avatar_path, preprocess,
                   size, enhancer>>
    /\ UNCHANGED <<stderrVars, otherVars>>

----------------------------------------------------------------------------
(* main.py: workspace, speech *)

\* line 139
result_root == RESULTS_DIR
\* line 142 (cli.py 87)
result_dir == result_root \o <<run_id>>
\* line 146
save_dir == result_dir \o <<timestamp>>

\* main.py creating the results root and leaving the run's directories to the stages
MainWorkspaceRootOnly ==
    /\ entry = "main" /\ pc = "workspace"
    /\ \E id \in RunIds : run_id' = id
    /\ dirs' = dirs \cup {result_root}
    /\ trace' = Append(trace, "WorkspaceReady")
    /\ pc' = "voice_check"
    /\ UNCHANGED <<entry, env, value, text, voice_model, avatar_path, audio_path,
                   preprocess, size, enhancer, batch_size, still, files, tts, tts_rc,
                   tts_text, anim, anim_rc, cmd, error, reported, ttsCalls, animCalls>>
    /\ UNCHANGED <<stderrVars, otherVars>>

\* lines 139-147
MainWorkspace ==
    /\ entry = "main" /\ pc = "workspace"
    /\ \E id \in RunIds :
          /\ run_id' = id
          /\ dirs' = dirs \cup {result_root} \cup WithParents(result_root \o <<id, timestamp>>)
    /\ trace' = Append(trace, "WorkspaceReady")
    /\ pc' = "voice_check"
    /\ UNCHANGED <<entry, env, value, text, voice_model, avatar_path, audio_path,
                   preprocess, size, enhancer, batch_size, still, files, tts, tts_rc,
                   tts_text, anim, anim_rc, cmd, error, reported, ttsCalls, animCalls>>
    /\ UNCHANGED <<stderrVars, otherVars>>

\* main.py going on to speak whether or not the voice model exists
MainVoiceCheckSkipped ==
    /\ entry = "main" /\ pc = "voice_check"
    /\ audio_path' = save_dir \o <<"piper.wav">>
    /\ \E found \in BOOLEAN :
          files' = (IF found THEN Write(files, File(voice_model, 1, 0)) ELSE files)
    /\ pc' = "speak"
    /\ trace' = Append(trace, "Synthesizing")
    /\ UNCHANGED <<entry, env, value, text, voice_model, avatar_path, preprocess,
                   size, enhancer, batch_size, still, run_id, dirs, tts, tts_rc,
                   tts_text, anim, anim_rc, cmd, error, reported, ttsCalls, animCalls>>
    /\ UNCHANGED <<stderrVars, otherVars>>

\* lines 151-156: wav_path, then the voice model must exist
MainVoiceCheck ==
    /\ entry = "main" /\ pc = "voice_check"
    /\ audio_path' = save_dir \o <<"piper.wav">>
    /\ \E found \in BOOLEAN :
          IF found
          THEN /\ files' = Write(files, File(voice_model, 1, 0))
               /\ pc' = "speak"
               /\ error' = error
               /\ trace' = Append(trace, "Synthesizing")
          ELSE /\ files' = files
               /\ pc' = "failed"
               /\ error' = "MissingVoiceModel"
               /\ trace' = trace \o <<"Synthesizing", "Failed">>
    /\ UNCHANGED <<entry, env, value, text, voice_model, avatar_path, preprocess,
                   size, enhancer, batch_size, still, run_id, dirs, tts, tts_rc,
                   tts_text, anim, anim_rc, cmd, reported, ttsCalls, animCalls>>
    /\ UNCHANGED <<stderrVars, otherVars>>

----------------------------------------------------------------------------
(* src/piper_tts.py: speak *)

\* line 25: cmd = ["piper", "-m", voice_model, "-t", text, "-f", output_wav_path]
PiperCmd ==
    <<Word("piper"), Word("-m"), Val(voice_model), Word("-t"), Val(text),
      Word("-f"), Val(audio_path)>>

\* lines 21-29: create the output directory, start piper (or fail to find it)
SpeakStart ==
    /\ pc = "speak"
    /\ dirs' = (IF dirname(audio_path) # <<>>
                THEN dirs \cup WithParents(dirname(audio_path)) ELSE dirs)
    /\ ttsCalls' = ttsCalls + 1
    /\ \E found \in BOOLEAN :
          IF found
          THEN /\ tts' = "running"
               /\ tts_text' = text
               /\ pc' = "tts_running"
               /\ UNCHANGED <<error, trace>>
          ELSE /\ Raise("StageNotFound")
               /\ tts' = "notfound"
               /\ tts_text' = tts_text
    /\ UNCHANGED <<entry, env, value, text, voice_model, avatar_path, audio_path,
                   preprocess, size, enhancer, batch_size, still, run_id, files,
                   tts_rc, anim, anim_rc, cmd, reported, animCalls>>
    /\ UNCHANGED <<stderrVars, otherVars>>

\* line 29: piper exits with a status, having written the output file or not
TtsExit ==
    /\ pc = "tts_running"
    /\ \E rc \in {0, 1}, w \in -1..MaxFileSize, err \in Stderrs :
          /\ rc = 0 => err = <<>>
          /\ tts_rc' = rc
          /\ tts_stderr' = err
          /\ files' = (IF w < 0 THEN files ELSE Write(files, File(audio_path, w, 0)))
    /\ tts' = "exited"
    /\ pc' = "speak_check"
    /\ UNCHANGED <<entry, env, value, text, voice_model, avatar_path, audio_path,
                   preprocess, size, enhancer, batch_size, still, run_id, dirs,
                   tts_text, anim, anim_rc, cmd, error, reported, trace, ttsCalls, animCalls>>
    /\ UNCHANGED <<anim_stderr, error_info, otherVars>>

\* speak without the test of piper's exit status
speak_ignoring_status(rc, fs, output_wav_path) ==
    IF ~exists(fs, output_wav_path) \/ getsize(fs, output_wav_path) = 0
    THEN "EmptyArtifactError"
    ELSE "return"

\* speak testing only that the output file exists
speak_ignoring_size(rc, fs, output_wav_path) ==
    IF rc # 0 THEN "StageExecutionError"
    ELSE IF ~exists(fs, output_wav_path) THEN "EmptyArtifactError"
    ELSE "return"

\* lines 30-40: what speak does once piper has exited
speak(rc, fs, output_wav_path) ==
    IF rc # 0 THEN "StageExecutionError"
    ELSE IF ~exists(fs, output_wav_path) \/ getsize(fs, output_wav_path) = 0
         THEN "EmptyArtifactError"
    ELSE "return"

\* a RuntimeError that names the command only
PiperFailedSilently(c, err) == [cmd |-> c, returncode |-> <<>>, stderr |-> <<>>]

\* lines 31-35: RuntimeError("Piper failed.\nCommand: ...\nstderr: ...")
PiperFailed(c, err) == [cmd |-> c, returncode |-> <<>>, stderr |-> <<strip(err)>>]

\* speak starting piper again when it failed
SpeakCheckRetry ==
    /\ pc = "speak_check"
    /\ pc' = (IF speak(tts_rc, files, audio_path) = "return"
              THEN (IF entry = "main" THEN "anim" ELSE "returned")
              ELSE "speak")
    /\ UNCHANGED <<entry, env, value, text, voice_model, avatar_path, audio_path,
                   preprocess, size, enhancer, batch_size, still, run_id, dirs, files,
                   tts, tts_rc, tts_text, anim, anim_rc, cmd, error, reported, trace,
                   ttsCalls, animCalls>>
    /\ UNCHANGED <<stderrVars, otherVars>>

\* lines 30-40, and the return to the caller (main.py line 157)
SpeakCheck ==
    /\ pc = "speak_check"
    /\ IF speak(tts_rc, files, audio_path) = "return"
       THEN /\ pc' = (IF entry = "main" THEN "anim" ELSE "returned")
            /\ UNCHANGED <<error, trace, error_info>>
       ELSE /\ Raise(speak(tts_rc, files, audio_path))
            /\ error_info' = (IF speak(tts_rc, files, audio_path) = "StageExecutionError"
                              THEN PiperFailed(PiperCmd, tts_stderr)
                              ELSE error_info)
    /\ UNCHANGED <<entry, env, value, text, voice_model, avatar_path, audio_path,
                   preprocess, size, enhancer, batch_size, still, run_id, dirs, files,
                   tts, tts_rc, tts_text, anim, anim_rc, cmd, reported, ttsCalls, animCalls>>
    /\ UNCHANGED <<tts_stderr, anim_stderr, otherVars>>

----------------------------------------------------------------------------
(* Animation and artifact location *)

NoCmd == [started |-> FALSE]

\* a command line with --still whatever the still flag says
MainArgvAlwaysStill ==
    <<Word("python"), Word("-m"), Word("src.inference"),
      Word("--driven_audio"), Val(audio_path),
      Word("--source_image"), Val(avatar_path),
      Word("--result_dir"), Val(result_dir),
      Word("--save_dir"), Val(save_dir),
      Word("--size"), Val(size),
      Word("--batch_size"), Val(batch_size),
      Word("--preprocess"), Val(preprocess)>>
    \o <<Word("--still")>>
    \o (IF enhancer # <<>> THEN <<Word("--enhancer"), Val(enhancer)>> ELSE <<>>)

\* main.py lines 159-183: the list `cmd`
MainArgv ==
    <<Word("python"), Word("-m"), Word("src.inference"),
      Word("--driven_audio"), Val(audio_path),
      Word("--source_image"), Val(avatar_path),
      Word("--result_dir"), Val(result_dir),
      Word("--save_dir"), Val(save_dir),
      Word("--size"), Val(size),
      Word("--batch_size"), Val(batch_size),
      Word("--preprocess"), Val(preprocess)>>
    \o (IF still THEN <<Word("--still")>> ELSE <<>>)
    \o (IF enhancer # <<>> THEN <<Word("--enhancer"), Val(enhancer)>> ELSE <<>>)

\* cli.py lines 89-110: the list `cmd`
CliArgv ==
    <<Word("python"), Word("inference.py"),
      Word("--driven_audio"), Val(audio_path),
      Word("--source_image"), Val(avatar_path),
      Word("--result_dir"), Val(result_dir),
      Word("--size"), Val(size),
      Word("--batch_size"), Val(batch_size),
      Word("--preprocess"), Val(preprocess)>>
    \o (IF still THEN <<Word("--still")>> ELSE <<>>)
    \o (IF enhancer # <<>> THEN <<Word("--enhancer"), Val(enhancer)>> ELSE <<>>)

\* main.py lines 159-183: what the engine is given
MainCmd ==
    [started |-> TRUE, driven_audio |-> audio_path, source_image |-> avatar_path,
     result_dir |-> result_dir, save_dir |-> save_dir, size |-> size,
     batch_size |-> batch_size, preprocess |-> preprocess,
     still |-> still, enhancer |-> enhancer, argv |-> MainArgv]

\* cli.py lines 89-110 (no --save_dir)
CliCmd ==
    [started |-> TRUE, driven_audio |-> audio_path, source_image |-> avatar_path,
     result_dir |-> result_dir, save_dir |-> <<>>, size |-> size,
     batch_size |-> batch_size, preprocess |-> preprocess,
     still |-> still, enhancer |-> enhancer, argv |-> CliArgv]

\* main.py line 189, cli.py line 116: check_call raises CalledProcessError(returncode, cmd);
\* the child's standard error is not captured
CalledProcessError(rc, c) == [cmd |-> c, returncode |-> <<rc>>, stderr |-> <<>>]

\* main.py lines 159-189, cli.py lines 89-116: start the inference process
AnimStart ==
    /\ pc = "anim"
    /\ cmd' = (IF entry = "main" THEN MainCmd ELSE CliCmd)
    /\ animCalls' = animCalls + 1
    /\ \E found \in BOOLEAN :
          IF found
          THEN /\ anim' = "running"
               /\ pc' = "anim_running"
               /\ trace' = Append(trace, "Animating")
               /\ error' = error
          ELSE /\ anim' = "notfound"
               /\ pc' = "failed"
               /\ error' = "StageNotFound"
               /\ trace' = trace \o <<"Animating", "Failed">>
    /\ UNCHANGED <<entry, env, value, text, voice_model, avatar_path, audio_path,
                   preprocess, size, enhancer, batch_size, still, run_id, dirs, files,
                   tts, tts_rc, tts_text, anim_rc, reported, ttsCalls>>
    /\ UNCHANGED <<stderrVars, otherVars>>

\* The videos the engine may leave in directory d: video i has mtime i.
Videos(d, S) == [q \in {d \o <<VideoNames[i]>> : i \in S} |->
                   [size |-> 1, mtime |-> CHOOSE i \in S : d \o <<VideoNames[i]>> = q]]

\* fs without the files under directory d
RemoveTree(fs, d) == [q \in {x \in DOMAIN fs : ~IsUnder(x, d)} |-> fs[q]]

\* main.py line 189, cli.py line 116: check_call returns or raises.  The
\* engine leaves its videos in result_dir or in save_dir; when it succeeds it
\* may instead remove save_dir with the intermediate files in it (main.py
\* lines 149-150) and leave its videos in result_dir (cli.py line 118).
AnimExit ==
    /\ pc = "anim_running"
    /\ anim' = "exited"
    /\ \E rc \in {0, 1}, S \in SUBSET (1..MaxVideos), where \in {"result", "save", "cleanup"},
          err \in Stderrs :
          /\ rc = 0 => err = <<>>
          /\ anim_rc' = rc
          /\ anim_stderr' = err
          /\ where # "result" => cmd.save_dir # <<>>
          /\ where = "cleanup" => rc = 0
          /\ IF where = "cleanup"
             THEN /\ dirs' = (dirs \cup WithParents(cmd.result_dir)) \ {cmd.save_dir}
                  /\ files' = Write(RemoveTree(files, cmd.save_dir), Videos(cmd.result_dir, S))
             ELSE LET d == IF where = "save" THEN cmd.save_dir ELSE cmd.result_dir
                  IN  /\ dirs' = (IF S # {} THEN dirs \cup WithParents(d) ELSE dirs)
                      /\ files' = Write(files, Videos(d, S))
          /\ IF rc = 0
             THEN /\ pc' = "locate"
                  /\ trace' = Append(trace, "Locating")
                  /\ error' = error
                  /\ error_info' = error_info
             ELSE /\ Raise("StageExecutionError")
                  /\ error_info' = CalledProcessError(rc, cmd.argv)
    /\ UNCHANGED <<entry, env, value, text, voice_model, avatar_path, audio_path,
                   preprocess, size, enhancer, batch_size, still, run_id,
                   tts, tts_rc, tts_text, cmd, reported, ttsCalls, animCalls>>
    /\ UNCHANGED <<tts_stderr, otherVars>>

\* main.py line 191, cli.py line 119: sorted(result_dir.rglob("*.mp4"), key=getmtime)
mp4_files(fs, d) == {q \in DOMAIN fs : IsUnder(q, d) /\ IsMp4(name(q))}

\* mp4_files[0], <<>> when the list is empty
Oldest(fs, S) ==
    IF S = {} THEN <<>>
    ELSE CHOOSE q \in S : \A o \in S : fs[q].mtime <= fs[o].mtime

\* mp4_files[-1], <<>> when the list is empty
Newest(fs, S) ==
    IF S = {} THEN <<>>
    ELSE CHOOSE q \in S : \A o \in S : fs[o].mtime <= fs[q].mtime

\* a run that fails when the engine left no video
LocateOrFail ==
    /\ pc = "locate"
    /\ reported' = Newest(files, mp4_files(files, result_dir))
    /\ IF mp4_files(files, result_dir) = {}
       THEN Raise("ArtifactNotFound")
       ELSE pc' = "done" /\ trace' = Append(trace, "Done") /\ error' = error
    /\ UNCHANGED <<entry, env, value, text, voice_model, avatar_path, audio_path,
                   preprocess, size, enhancer, batch_size, still, run_id, dirs, files,
                   tts, tts_rc, tts_text, anim, anim_rc, cmd, ttsCalls, animCalls>>
    /\ UNCHANGED <<stderrVars, otherVars>>

\* main.py lines 191-195, cli.py lines 119-123
Locate ==
    /\ pc = "locate"
    /\ reported' = Newest(files, mp4_files(files, result_dir))
    /\ pc' = "done"
    /\ trace' = Append(trace, "Done")
    /\ UNCHANGED <<entry, env, value, text, voice_model, avatar_path, audio_path,
                   preprocess, size, enhancer, batch_size, still, run_id, dirs, files,
                   tts, tts_rc, tts_text, anim, anim_rc, cmd, error, ttsCalls, animCalls>>
    /\ UNCHANGED <<stderrVars, otherVars>>

----------------------------------------------------------------------------
(* cli.py *)

CliConfigVars == <<entry, env, text, voice_model, run_id, dirs, tts, tts_rc, tts_text,
                   anim, anim_rc, cmd, error, reported, trace, ttsCalls, animCalls>>

\* line 40
CliImage ==
    /\ entry = "cli" /\ pc = "image"
    /\ \E raw \in PathInputs, found \in BOOLEAN :
          LET r == prompt_path(raw, found)
          IN  IF r.returned
              THEN avatar_path' = r.result /\ value' = r.value /\ pc' = "audio"
              ELSE avatar_path' = avatar_path /\ value' = r.value /\ pc' = pc
    /\ UNCHANGED <<CliConfigVars, audio_path, files, preprocess, size, enhancer,
                   batch_size, still>>
    /\ UNCHANGED <<stderrVars, otherVars>>

\* line 41: the path is accepted when it exists; the file there has some size
CliAudio ==
    /\ entry = "cli" /\ pc = "audio"
    /\ \E raw \in PathInputs, found \in BOOLEAN, sz \in 0..MaxFileSize :
          LET r == prompt_path(raw, found)
          IN  IF r.returned
              THEN /\ audio_path' = r.result
                   /\ files' = Write(files, File(r.result, sz, 0))
                   /\ value' = r.value
                   /\ pc' = "preprocess"
              ELSE /\ audio_path' = audio_path
                   /\ files' = files
                   /\ value' = r.value
                   /\ pc' = pc
    /\ UNCHANGED <<CliConfigVars, avatar_path, preprocess, size, enhancer,
                   batch_size, still>>
    /\ UNCHANGED <<stderrVars, otherVars>>

\* lines 43-58
CliPreprocess ==
    /\ entry = "cli" /\ pc = "preprocess"
    /\ \E raw \in ChoiceInputs :
          LET r == prompt_choice(raw, {S_1, S_2, S_3}, S_1)
          IN  IF r.returned
              THEN preprocess' = PreprocessOf(r.result) /\ value' = r.value /\ pc' = "size"
              ELSE preprocess' = preprocess /\ value' = r.value /\ pc' = pc
    /\ UNCHANGED <<CliConfigVars, avatar_path, audio_path, files, size, enhancer,
                   batch_size, still>>
    /\ UNCHANGED <<stderrVars, otherVars>>

\* lines 60-68
CliSize ==
    /\ entry = "cli" /\ pc = "size"
    /\ \E raw \in ChoiceInputs :
          LET r == prompt_choice(raw, {S_256, S_512}, S_256)
          IN  IF r.returned
              THEN size' = r.result /\ value' = r.value /\ pc' = "enhancer"
              ELSE size' = size /\ value' = r.value /\ pc' = pc
    /\ UNCHANGED <<CliConfigVars, avatar_path, audio_path, files, preprocess,
                   enhancer, batch_size, still>>
    /\ UNCHANGED <<stderrVars, otherVars>>

\* lines 70-82: the enhancer prompt, then batch_size = "1" and still
CliEnhancer ==
    /\ entry = "cli" /\ pc = "enhancer"
    /\ \E raw \in ChoiceInputs :
          LET r == prompt_choice(raw, {S_1, S_2}, S_1)
          IN  IF r.returned
              THEN /\ enhancer' = EnhancerOf(r.result)
                   /\ batch_size' = S_1
                   /\ still' = StillOf(preprocess)
                   /\ value' = r.value
                   /\ pc' = "workspace"
              ELSE /\ UNCHANGED <<enhancer, batch_size, still>>
                   /\ value' = r.value
                   /\ pc' = pc
    /\ UNCHANGED <<CliConfigVars, avatar_path, audio_path, files, preprocess, size>>
    /\ UNCHANGED <<stderrVars, otherVars>>

\* lines 84-87: only the results root is created
CliWorkspace ==
    /\ entry = "cli" /\ pc = "workspace"
    /\ \E id \in RunIds : run_id' = id
    /\ dirs' = dirs \cup {<<"results">>}
    /\ trace' = Append(trace, "WorkspaceReady")
    /\ pc' = "anim"
    /\ UNCHANGED <<entry, env, value, text, voice_model, avatar_path, audio_path,
                   preprocess, size, enhancer, batch_size, still, files, tts, tts_rc,
                   tts_text, anim, anim_rc, cmd, error, reported, ttsCalls, animCalls>>
    /\ UNCHANGED <<stderrVars, otherVars>>

----------------------------------------------------------------------------
(* Specification *)

InitCommon ==
    /\ value = <<>>
    /\ avatar_path = <<>>
    /\ preprocess = <<>>
    /\ size = <<>>
    /\ enhancer = <<>>
    /\ batch_size = <<>>
    /\ still = FALSE
    /\ run_id = ""
    /\ tts = "none"
    /\ tts_rc = 0
    /\ tts_text = <<>>
    /\ anim = "none"
    /\ anim_rc = 0
    /\ cmd = NoCmd
    /\ error = ""
    /\ reported = <<>>
    /\ ttsCalls = 0
    /\ animCalls = 0
    /\ tts_stderr = <<>>
    /\ anim_stderr = <<>>
    /\ error_info = NoErrorInfo

\* no concurrent runs, and setup.py is not running
InitOther ==
    /\ runs = <<>>
    /\ accesses = {}
    /\ setup = [pc |-> "none"]

\* python main.py
InitMain ==
    /\ entry = "main"
    /\ env \in Environments
    /\ pc = "text"
    /\ text = <<>>
    /\ voice_model = <<>>
    /\ audio_path = <<>>
    /\ dirs \in {{}, {RESULTS_DIR}}
    /\ files = NoFiles
    /\ trace = <<"Configuring">>

\* python cli.py
InitCli ==
    /\ entry = "cli"
    /\ env = NoEnvironment
    /\ pc = "image"
    /\ text = <<>>
    /\ voice_model = <<>>
    /\ audio_path = <<>>
    /\ dirs \in {{}, {<<"results">>}}
    /\ files = NoFiles
    /\ trace = <<"Configuring">>

\* a caller's speak(text, output_wav_path, voice_model)
InitSpeak ==
    /\ entry = "speak"
    /\ env = NoEnvironment
    /\ pc = "speak"
    /\ text \in {<<>>, S_hi}
    /\ voice_model = PIPER_VOICE_FEMALE
    /\ audio_path \in {<<"out.wav">>, <<"out", "speech.wav">>}
    /\ dirs = {}
    /\ files \in {NoFiles} \cup {File(audio_path, sz, 0) : sz \in 0..MaxFileSize}
    /\ trace = <<>>

Init == InitCommon /\ InitOther /\ (InitMain \/ InitCli \/ InitSpeak)

Next ==
    \/ MainText
    \/ MainVoice
    \/ MainAvatar
    \/ MainAvatarPrompt
    \/ MainPreprocess
    \/ MainSize
    \/ MainEnhancer
    \/ MainBatch
    \/ MainWorkspace
    \/ MainVoiceCheck
    \/ SpeakStart
    \/ TtsExit
    \/ SpeakCheck
    \/ AnimStart
    \/ AnimExit
    \/ Locate
    \/ CliImage
    \/ CliAudio
    \/ CliPreprocess
    \/ CliSize
    \/ CliEnhancer
    \/ CliWorkspace

Spec == Init /\ [][Next]_vars

----------------------------------------------------------------------------
(* Properties *)

IsPrefix(a, b) == Len(a) <= Len(b) /\ SubSeq(b, 1, Len(a)) = a
Last(q) == q[Len(q)]

StagesOfTextRun ==
    <<"Configuring", "WorkspaceReady", "Synthesizing", "Animating", "Locating", "Done">>

\* speak has finished, piper having exited
SpeakFinished == tts = "exited" /\ pc # "speak_check"
\* speak has returned its path to the caller, and the animation process,
\* if started, has not exited
SpeakReturned ==
    \/ pc = "returned"
    \/ entry = "main" /\ pc \in {"anim", "anim_running"}
    \/ entry = "main" /\ anim = "notfound"
\* main.py is past its test of the voice model
PastVoiceCheck ==
    entry = "main" /\ pc \notin {"text", "voice", "avatar", "avatar_prompt", "preprocess",
                                 "size", "enhancer", "batch", "workspace", "voice_check"}

\* C1: when the animation engine is invoked, through main.py or cli.py, the
\* driven-audio path it is given names a file that exists and has non-zero
\* size (stated of the states from the invocation to the engine's exit).
C1_DrivenAudioNonEmpty ==
    (cmd.started /\ anim # "exited") =>
        /\ exists(files, cmd.driven_audio)
        /\ getsize(files, cmd.driven_audio) > 0

\* C2: in a text-driven run piper is started only once the workspace exists,
\* the animation process only after piper has exited with status zero, artifact
\* location only after the animation process has exited; the two processes
\* never run at once; the stages are visited in the order Configuring,
\* WorkspaceReady, Synthesizing, Animating, Locating, Done, and a run that
\* reaches Done has visited exactly these and started each process exactly once.
C2_TextRunOrdered ==
    entry = "main" =>
        /\ (ttsCalls > 0 /\ anim # "exited") =>
               {result_root, result_dir, save_dir} \subseteq dirs
        /\ ttsCalls > 0 => IsPrefix(<<"Configuring", "WorkspaceReady">>, trace)
        /\ animCalls > 0 => tts = "exited" /\ tts_rc = 0 /\ ttsCalls = 1
        /\ pc \in {"locate", "done"} => anim = "exited" /\ anim_rc = 0
        /\ ~(tts = "running" /\ anim \in {"running", "exited"})
        /\ IsPrefix(IF Last(trace) = "Failed" THEN SubSeq(trace, 1, Len(trace) - 1) ELSE trace,
                    StagesOfTextRun)
        /\ pc = "done" => trace = StagesOfTextRun /\ ttsCalls = 1 /\ animCalls = 1

C2_Witness == entry = "main" /\ pc = "done" /\ reported # <<>>

\* C3: when main.py finds that the selected voice model does not exist, the
\* run fails in Synthesizing with the missing-voice-model error, neither
\* piper nor the animation process is ever invoked, and result_dir and
\* save_dir exist.
C3_MissingVoiceModel ==
    (PastVoiceCheck /\ ~exists(files, voice_model)) =>
        /\ pc = "failed"
        /\ error = "MissingVoiceModel"
        /\ trace = <<"Configuring", "WorkspaceReady", "Synthesizing", "Failed">>
        /\ ttsCalls = 0 /\ tts = "none"
        /\ animCalls = 0 /\ anim = "none"
        /\ {result_dir, save_dir} \subseteq dirs

C3_Witness ==
    /\ entry = "main" /\ error = "MissingVoiceModel"
    /\ ~exists(files, voice_model) /\ save_dir \in dirs

\* what each stage failure leaves behind
C4_FailureStates ==
    /\ (tts = "notfound" \/ anim = "notfound") => pc = "failed" /\ error = "StageNotFound"
    /\ (SpeakFinished /\ tts_rc # 0) =>
           pc = "failed" /\ error = "StageExecutionError" /\ animCalls = 0
    /\ (SpeakFinished /\ tts_rc = 0 /\ anim # "exited"
          /\ (~exists(files, audio_path) \/ getsize(files, audio_path) = 0)) =>
           pc = "failed" /\ error = "EmptyArtifactError" /\ animCalls = 0
    /\ tts = "notfound" => animCalls = 0
    /\ (anim = "exited" /\ anim_rc # 0) =>
           pc = "failed" /\ error = "StageExecutionError" /\ reported = <<>>
    /\ anim = "notfound" => reported = <<>>
    /\ pc = "failed" =>
           /\ Last(trace) = "Failed"
           /\ ttsCalls <= 1 /\ animCalls <= 1
           /\ tts # "running" /\ anim # "running"

\* C4: a stage failure (piper or the animation process exiting non-zero or
\* not being found, an empty audio artifact) ends the run in Failed: no later
\* stage is invoked, no stage is invoked twice, Failed is left by no step, and
\* no step removes a directory or file that exists, except the animation
\* engine's own clean-up when it succeeds.
C4_StageFailureIsTerminal ==
    /\ []C4_FailureStates
    /\ [][/\ pc # "failed"
          /\ pc' # "locate" => /\ dirs \subseteq dirs'
                               /\ DOMAIN files \subseteq DOMAIN files']_vars

C4_Witness ==
    /\ pc = "failed" /\ error = "StageExecutionError"
    /\ anim = "exited" /\ ttsCalls = 1 /\ animCalls = 1
    /\ exists(files, audio_path) /\ save_dir \in dirs

\* C5: once piper has exited with status zero, speak raises the
\* empty-artifact error if the output file is missing or has size zero, and
\* it returns only when the file exists with non-zero size.
C5_EmptyArtifact ==
    /\ (SpeakFinished /\ tts_rc = 0 /\ anim # "exited"
          /\ (~exists(files, audio_path) \/ getsize(files, audio_path) = 0)) =>
           pc = "failed" /\ error = "EmptyArtifactError"
    /\ SpeakReturned =>
           exists(files, audio_path) /\ getsize(files, audio_path) > 0
    /\ error = "EmptyArtifactError" => tts = "exited" /\ tts_rc = 0

C5_Witness ==
    /\ error = "EmptyArtifactError" /\ tts_rc = 0
    /\ exists(files, audio_path) /\ getsize(files, audio_path) = 0

\* C6: piper is never started with an empty text argument: speak called with
\* empty text fails before it starts the process.
C6_NoEmptyTextToTts ==
    ttsCalls > 0 => text # <<>>

\* C7: the batch size passed to the animation engine is a positive integer.
C7_BatchSizePositive ==
    cmd.started => isdigit(cmd.batch_size) /\ int(cmd.batch_size) > 0

\* the option table of each choice prompt, by position in the code
ChoiceOptions(p) ==
    CASE p = "preprocess" -> {S_1, S_2, S_3}
      [] p = "size" -> {S_256, S_512}
      [] p = "enhancer" -> {S_1, S_2}

C8_Resolved ==
    /\ preprocess \in {<<>>, S_crop, S_full, S_extfull}
    /\ size \in {<<>>, S_256, S_512}
    /\ enhancer \in {<<>>, S_gfpgan}
    /\ cmd.started =>
           /\ cmd.preprocess \in {S_crop, S_full, S_extfull}
           /\ cmd.size \in {S_256, S_512}
           /\ cmd.enhancer \in {<<>>, S_gfpgan}

\* C8: for every user input and every environment default, the configuration
\* passed to the animation engine has preprocessing mode in {crop, full,
\* extfull}, resolution in {256, 512} and enhancer in {none, gfpgan}; a line
\* that is neither empty nor in the prompt's option table is not accepted: the
\* prompt stays where it is and the parameters keep their values.
C8_ConfigInDomain ==
    /\ []C8_Resolved
    /\ [][(pc \in {"preprocess", "size", "enhancer"}
             /\ value' \notin ChoiceOptions(pc) \cup {<<>>}) =>
          (pc' = pc /\ UNCHANGED <<preprocess, size, enhancer, batch_size, still>>)]_vars

C8_Witness ==
    /\ cmd.started /\ env.size = <<S_1024>> /\ cmd.size = S_256
    /\ cmd.preprocess = S_extfull /\ cmd.enhancer = S_gfpgan

\* what an explicit choice at each prompt stands for
ExplicitPreprocess(v) ==
    CASE v = S_1 -> S_crop [] v = S_2 -> S_full [] v = S_3 -> S_extfull
ExplicitEnhancer(v) == IF v = S_2 THEN S_gfpgan ELSE <<>>

\* the value a prompt of main.py resolved to, and what it was resolved from:
\* line is the stripped input, e the environment variable
Resolutions ==
    {[at |-> "preprocess", to |-> "size", got |-> preprocess',
      explicit |-> IF value' \in {S_1, S_2, S_3} THEN ExplicitPreprocess(value') ELSE <<>>,
      e |-> env.preprocess, valid |-> env.preprocess \in {<<S_crop>>, <<S_full>>, <<S_extfull>>},
      builtin |-> S_crop],
     [at |-> "size", to |-> "enhancer", got |-> size',
      explicit |-> value',
      e |-> env.size, valid |-> env.size \in {<<S_256>>, <<S_512>>},
      builtin |-> S_256],
     [at |-> "enhancer", to |-> "batch", got |-> enhancer',
      explicit |-> ExplicitEnhancer(value'),
      e |-> env.enhancer, valid |-> env.enhancer \in {<<S_empty>>, <<S_gfpgan>>},
      builtin |-> <<>>],
     [at |-> "batch", to |-> "workspace", got |-> batch_size',
      explicit |-> value',
      e |-> env.batch_size,
      valid |-> env.batch_size # <<>> /\ isdigit(env.batch_size[1]) /\ int(env.batch_size[1]) > 0,
      builtin |-> S_1]}

\* C9 as stated: an explicit choice wins; with empty input the value is the
\* environment-supplied default when one is set; with neither, the built-in
\* default (crop, 256, none, 1).
C9_Layering ==
    [][entry = "main" =>
         \A r \in Resolutions :
             (pc = r.at /\ pc' = r.to) =>
                 r.got = (IF value' # <<>> THEN r.explicit
                          ELSE IF r.e # <<>> THEN r.e[1]
                          ELSE r.builtin)]_vars

\* C9 as amended: in main.py an explicit choice wins; with empty input the
\* value is the environment-supplied default when one is set to a member of
\* the parameter's domain (crop, full or extfull; 256 or 512; gfpgan or the
\* empty string for none; digits denoting a positive integer); with the
\* variable unset, the built-in default (crop, 256, none, 1).
C9_LayeringOverValidDefaults ==
    [][entry = "main" =>
         \A r \in Resolutions :
             (pc = r.at /\ pc' = r.to) =>
                 /\ value' # <<>> => r.got = r.explicit
                 /\ (value' = <<>> /\ r.valid) => r.got = r.e[1]
                 /\ (value' = <<>> /\ r.e = <<>>) => r.got = r.builtin]_vars

C9_Witness ==
    /\ entry = "main" /\ pc = "size" /\ value = <<>>
    /\ env.preprocess = <<S_full>> /\ preprocess = S_full

\* C10: the still flag passed to the animation engine is true if and only if
\* the preprocessing mode starts with "full": true for full and extfull,
\* false for crop.
C10_StillIffFull ==
    cmd.started =>
        /\ cmd.still <=> startswith(cmd.preprocess, S_full)
        /\ cmd.preprocess \in {S_full, S_extfull} => cmd.still
        /\ cmd.preprocess = S_crop => ~cmd.still

\* word w is an element of command line a
HasWord(a, w) == \E i \in 1..Len(a) : a[i] = Word(w)
\* option w is given in command line a with value v
Given(a, w, v) == \E i \in 1..(Len(a) - 1) : a[i] = Word(w) /\ a[i + 1] = Val(v)

\* the invariable arguments other than the save directory, and the two optional ones
ArgumentsButSaveDir ==
    /\ HasWord(cmd.argv, "--still") <=> still
    /\ HasWord(cmd.argv, "--enhancer") <=> enhancer # <<>>
    /\ enhancer # <<>> => Given(cmd.argv, "--enhancer", enhancer)
    /\ Given(cmd.argv, "--driven_audio", audio_path)
    /\ Given(cmd.argv, "--source_image", avatar_path)
    /\ Given(cmd.argv, "--result_dir", result_dir)
    /\ Given(cmd.argv, "--size", size)
    /\ Given(cmd.argv, "--batch_size", batch_size)
    /\ Given(cmd.argv, "--preprocess", preprocess)

\* C11: the command line of the animation engine contains the still flag
\* exactly when still is true and the enhancer argument exactly when the
\* enhancer is not none; driven audio, source image, result dir, save dir,
\* size, batch size and preprocess are always present with the resolved values.
C11_EngineArguments ==
    cmd.started =>
        /\ ArgumentsButSaveDir
        /\ Given(cmd.argv, "--save_dir", save_dir)

\* C11 as amended: as above, but the save directory is an argument in main.py
\* only; cli.py passes no save directory.
C11_EngineArgumentsOfEntry ==
    cmd.started =>
        /\ ArgumentsButSaveDir
        /\ entry = "main" => Given(cmd.argv, "--save_dir", save_dir)
        /\ entry = "cli" => ~HasWord(cmd.argv, "--save_dir")

C11_Witness ==
    /\ entry = "main" /\ cmd.started /\ ~still /\ enhancer = S_gfpgan
    /\ HasWord(cmd.argv, "--enhancer") /\ ~HasWord(cmd.argv, "--still")

\* the run has set up its workspace
PastWorkspace == \E i \in 1..Len(trace) : trace[i] = "WorkspaceReady"

\* the run's two directories exist, one inside the other, under the results root
WorkspaceReady ==
    /\ {result_root, result_dir, save_dir} \subseteq dirs
    /\ dirname(save_dir) = result_dir
    /\ dirname(result_dir) = result_root
    /\ name(result_dir) = run_id

\* C12: before the first external stage is invoked, resultDir = resultsRoot/id
\* and saveDir = resultDir/timestamp both exist, and saveDir is a direct
\* child of resultDir (until the engine, on exit, has cleaned up).
C12_WorkspaceBeforeStages ==
    (entry \in {"main", "cli"} /\ PastWorkspace /\ anim # "exited") => WorkspaceReady

\* C12 as amended: in main.py both directories exist, saveDir a direct child
\* of resultDir, before the first external stage is invoked; cli.py creates
\* only the results root before it invokes the animation engine.
C12_MainWorkspaceBeforeStages ==
    /\ (entry = "main" /\ PastWorkspace /\ anim # "exited") => WorkspaceReady
    /\ (entry = "cli" /\ PastWorkspace) => result_root \in dirs
    /\ (entry = "cli" /\ pc = "anim") => dirs \cap {result_dir, save_dir} = {}

C12_Witness ==
    /\ entry = "main" /\ pc = "speak" /\ ttsCalls = 0 /\ animCalls = 0
    /\ save_dir \in dirs

----------------------------------------------------------------------------
(* Concurrent runs of main.py against one results root *)

\* The locals of one run, which concurrent runs and setup.py leave alone.
runVars == <<entry, env, pc, value, text, voice_model, avatar_path, audio_path,
             preprocess, size, enhancer, batch_size, still, run_id, tts, tts_rc,
             tts_text, anim, anim_rc, cmd, error, reported, trace, ttsCalls,
             animCalls, stderrVars>>

\* No single run is in progress.
InitNoRun ==
    /\ InitCommon
    /\ entry = "none" /\ env = NoEnvironment /\ pc = "none"
    /\ text = <<>> /\ voice_model = <<>> /\ audio_path = <<>> /\ trace = <<>>

\* The runs that execute concurrently.
Runs == {1, 2}
\* Values of uuid.uuid4(); two calls do not return the same value.
Uuids == {"uuid-1", "uuid-2", "uuid-3"}

\* main.py line 142
RunResultDir(r) == result_root \o <<runs[r].id>>
\* a save directory named by the timestamp alone
RunSaveDirShared(r) == result_root \o <<timestamp>>
\* main.py line 146: two runs may start within the same second
RunSaveDir(r) == RunResultDir(r) \o <<timestamp>>
\* main.py line 151
RunWavPath(r) == RunSaveDir(r) \o <<"piper.wav">>

Access(r, op, p) == [run |-> r, op |-> op, path |-> p]

\* An earlier run's subtree, found under the results root by a later run.
OldRunDir == result_root \o <<"uuid-0">>
OldVideo == OldRunDir \o <<timestamp, "a.mp4">>

\* os.mkdir(p): the one system call creates the directory or reports why not
os_mkdir(ds, fs, p) ==
    IF p \in ds \/ exists(fs, p) THEN "EEXIST"
    ELSE IF dirname(p) # <<>> /\ dirname(p) \notin ds THEN "ENOENT"
    ELSE "created"

\* main.py line 139-140, cli.py lines 84-85: result_root.mkdir(exist_ok=True)
\* calls os.mkdir; parents is False, so a missing parent is an error
RunMkdirRoot(r) ==
    /\ runs[r].pc = "root"
    /\ LET e == os_mkdir(dirs, files, result_root)
       IN  /\ dirs' = (IF e = "created" THEN dirs \cup {result_root} ELSE dirs)
           /\ accesses' = (IF e = "created"
                           THEN accesses \cup {Access(r, "create", result_root)}
                           ELSE accesses)
           /\ runs' = [runs EXCEPT ![r].pc = CASE e = "created" -> "workspace"
                                               [] e = "EEXIST" -> "root_exists"
                                               [] OTHER -> "alloc_failed"]
    /\ UNCHANGED <<files, setup, runVars>>

\* mkdir(exist_ok=False): FileExistsError whenever os.mkdir found the path taken
RunRootExistsStrict(r) ==
    /\ runs[r].pc = "root_exists"
    /\ runs' = [runs EXCEPT ![r].pc = "alloc_failed"]
    /\ UNCHANGED <<dirs, files, accesses, setup, runVars>>

\* Path.mkdir, on os.mkdir's FileExistsError: with exist_ok=True the error is
\* dropped when the path is a directory
RunRootExists(r) ==
    /\ runs[r].pc = "root_exists"
    /\ runs' = [runs EXCEPT ![r].pc = IF result_root \in dirs THEN "workspace"
                                      ELSE "alloc_failed"]
    /\ UNCHANGED <<dirs, files, accesses, setup, runVars>>

\* main.py lines 141-147: mkdir creates the directories that do not exist yet
RunWorkspace(r) ==
    /\ runs[r].pc = "workspace"
    /\ \E id \in Uuids \ {runs[q].id : q \in Runs} :
          LET rs == [runs EXCEPT ![r].id = id, ![r].pc = "speak"]
              made == {result_root}
                      \cup WithParents(result_root \o <<id>>)
                      \cup WithParents(result_root \o <<id, timestamp>>)
          IN  /\ runs' = rs
              /\ dirs' = dirs \cup made
              /\ accesses' = accesses \cup {Access(r, "create", d) : d \in made \ dirs}
    /\ UNCHANGED <<files, setup, runVars>>

\* main.py lines 151-157: piper writes the file named by -f
RunSpeak(r) ==
    /\ runs[r].pc = "speak"
    /\ files' = Write(files, File(RunWavPath(r), 1, 0))
    /\ dirs' = dirs \cup WithParents(RunSaveDir(r))
    /\ accesses' = accesses \cup {Access(r, "write", RunWavPath(r))}
    /\ runs' = [runs EXCEPT ![r].pc = "anim"]
    /\ UNCHANGED <<setup, runVars>>

\* main.py lines 159-189: the engine, given --result_dir and --save_dir,
\* leaves its videos in one of them and may remove save_dir when it succeeds
RunAnimate(r) ==
    /\ runs[r].pc = "anim"
    /\ \E rc \in {0, 1}, S \in SUBSET (1..MaxVideos), where \in {"result", "save", "cleanup"} :
          /\ where = "cleanup" => rc = 0
          /\ LET d == IF where = "save" THEN RunSaveDir(r) ELSE RunResultDir(r)
                 removed == IF where = "cleanup"
                            THEN {q \in DOMAIN files : IsUnder(q, RunSaveDir(r))}
                            ELSE {}
                 kept == IF where = "cleanup" THEN RemoveTree(files, RunSaveDir(r))
                         ELSE files
             IN  /\ files' = Write(kept, Videos(d, S))
                 /\ dirs' = (IF where = "cleanup" THEN dirs \ {RunSaveDir(r)} ELSE dirs)
                 /\ accesses' = accesses
                        \cup {Access(r, "remove", q) : q \in removed}
                        \cup {Access(r, "write", q) : q \in DOMAIN Videos(d, S)}
          /\ runs' = [runs EXCEPT ![r].pc = IF rc = 0 THEN "locate" ELSE "failed"]
    /\ UNCHANGED <<setup, runVars>>

\* main.py lines 191-195
RunLocate(r) ==
    /\ runs[r].pc = "locate"
    /\ LET mp4s == mp4_files(files, RunResultDir(r))
           last == Newest(files, mp4s)
       IN  /\ runs' = [runs EXCEPT ![r].pc = "done", ![r].reported = last]
           /\ accesses' = accesses
                  \cup {Access(r, "read", q) : q \in mp4s}
                  \cup (IF last # <<>> THEN {Access(r, "report", last)} ELSE {})
    /\ UNCHANGED <<dirs, files, setup, runVars>>

RunsInit ==
    /\ InitNoRun
    /\ runs = [r \in Runs |-> [pc |-> "root", id |-> "", reported |-> <<>>]]
    /\ accesses = {}
    /\ setup = [pc |-> "none"]
    /\ \/ dirs \in {{}, {RESULTS_DIR}} /\ files = NoFiles
       \/ dirs = WithParents(dirname(OldVideo)) /\ files = File(OldVideo, 1, 1)

RunsNext ==
    \E r \in Runs :
        \/ RunMkdirRoot(r)
        \/ RunRootExists(r)
        \/ RunWorkspace(r)
        \/ RunSpeak(r)
        \/ RunAnimate(r)
        \/ RunLocate(r)

SpecRuns == RunsInit /\ [][RunsNext]_vars

\* path p is the run's result directory or lies under it
InOwnTree(r, p) == p = RunResultDir(r) \/ IsUnder(p, RunResultDir(r))

\* C13: with several runs executing concurrently against one results root,
\* each run creates and writes only inside its own identity-named subtree
\* (the shared root itself apart); no path is created or written by two
\* runs; no run reads, reports, removes or overwrites anything under another
\* run's result directory.
C13_RunsConfined ==
    /\ \A a \in accesses : a.path # result_root => InOwnTree(a.run, a.path)
    /\ \A a, b \in accesses :
          (a.run # b.run /\ {a.op, b.op} \subseteq {"create", "write"}) => a.path # b.path
    /\ \A a \in accesses : \A q \in Runs \ {a.run} :
          runs[q].id # "" => ~InOwnTree(q, a.path)

C13_Witness ==
    /\ runs[1].pc = "done" /\ runs[2].pc = "anim"
    /\ runs[1].reported # <<>>
    /\ \E a \in accesses : a.run = 2 /\ a.op = "write"
    /\ \E a \in accesses : a.run = 1 /\ a.op = "remove"

----------------------------------------------------------------------------
(* Runs in which processes exit and prompts are answered *)

\* A step that leaves the current position: the program's next statement, the
\* exit of the external process it waits for, or a valid answer to the prompt
\* it is showing.  (An invalid answer leaves the run at the prompt.)
Progress == Next /\ pc' # pc

\* The three entry points with no configuration variable set in the
\* environment: the environment changes the defaults the prompts offer, not
\* the statements a run executes.
FairInit == Init /\ env = NoEnvironment

\* Every invoked process eventually exits, the user eventually gives a valid
\* answer to each prompt, and the interpreter keeps executing.
FairSpec == FairInit /\ [][Next]_vars /\ WF_vars(Progress)

\* C14: after a successful exit of the animation stage the run goes on to
\* locate the artifact and ends in Done, without an error, whether or not a
\* video is found; it never becomes Failed.
C14_LocateThenDone ==
    /\ []((anim = "exited" /\ anim_rc = 0) => (pc \in {"locate", "done"} /\ error = ""))
    /\ (anim = "exited" /\ anim_rc = 0) ~> (pc = "done" /\ Last(trace) = "Done")

C14_Witness ==
    /\ anim = "exited" /\ anim_rc = 0 /\ pc = "done" /\ reported = <<>>
    /\ mp4_files(files, result_dir) = {}

\* the files with the video extension at any depth under run r's result directory
VideosUnder(r) ==
    {q \in DOMAIN files : IsUnder(q, RunResultDir(r)) /\ IsMp4(name(q))}

\* C15: the locator reports nothing when no file with the video extension
\* exists anywhere under resultDir; otherwise it reports the one with the
\* greatest modification time among all such files at any depth.  A file with
\* another extension (piper.wav) or outside resultDir (another run's video,
\* however new) is never reported.
C15_NewestVideoUnderResultDir ==
    \A r \in Runs :
        runs[r].pc = "done" =>
            IF VideosUnder(r) = {}
            THEN runs[r].reported = <<>>
            ELSE /\ runs[r].reported \in VideosUnder(r)
                 /\ \A o \in VideosUnder(r) :
                       files[o].mtime <= files[runs[r].reported].mtime

C15_Witness ==
    /\ runs[1].pc = "done" /\ runs[2].pc = "locate"
    /\ IsUnder(runs[1].reported, RunSaveDir(1))
    /\ RunWavPath(1) \in DOMAIN files
    /\ \E q \in VideosUnder(2) : files[q].mtime > files[runs[1].reported].mtime

\* the exception carries text t, as printed or with surrounding blanks removed
CarriesStderr(t) == error_info.stderr \in {<<t>>, <<strip(t)>>}

\* the stage-execution error was raised for the animation stage
AnimationFailed == error = "StageExecutionError" /\ anim = "exited"
\* the stage-execution error was raised for the TTS stage
TtsFailed == error = "StageExecutionError" /\ anim # "exited"

\* C16: when either external stage (TTS or animation) exits with a non-zero
\* status, the run fails with a stage-execution error that carries both the
\* command line that was run and the standard-error text of that process.
C16_ErrorCarriesCommandAndStderr ==
    /\ TtsFailed =>
          /\ pc = "failed" /\ tts_rc # 0
          /\ error_info.cmd = PiperCmd
          /\ CarriesStderr(tts_stderr)
    /\ AnimationFailed =>
          /\ pc = "failed" /\ anim_rc # 0
          /\ error_info.cmd = cmd.argv
          /\ CarriesStderr(anim_stderr)

\* C16 as amended: a non-zero exit status of either stage fails the run with
\* an error that carries the command line that was run.  The TTS stage's
\* error also carries the standard-error text captured from piper; the
\* animation stage's error carries the exit status instead: the engine's
\* standard error is not captured.
C16_ErrorCarriesCommand ==
    /\ TtsFailed =>
          /\ pc = "failed" /\ tts_rc # 0
          /\ error_info.cmd = PiperCmd
          /\ CarriesStderr(tts_stderr)
    /\ AnimationFailed =>
          /\ pc = "failed" /\ anim_rc # 0
          /\ error_info.cmd = cmd.argv
          /\ error_info.returncode = <<anim_rc>>
          /\ error_info.stderr = <<>>
    /\ (pc = "failed" /\ tts = "exited" /\ tts_rc # 0) => TtsFailed
    /\ (pc = "failed" /\ anim = "exited" /\ anim_rc # 0) => AnimationFailed

C16_Witness ==
    /\ entry = "main" /\ TtsFailed /\ tts_stderr = <<"e", " ">>
    /\ error_info.stderr = <<(<<"e">>)>>

\* the voice offered when the user gives no choice, from file names only
DefaultVoice ==
    IF name(PIPER_VOICE_DEFAULT) = name(PIPER_VOICE_MALE) THEN "male"
    ELSE IF name(PIPER_VOICE_DEFAULT) = name(PIPER_VOICE_FEMALE) THEN "female"
    ELSE "female"

\* the final choice, given the answer that the voice prompt accepted
FinalVoice(answer) ==
    IF answer = <<>> THEN DefaultVoice
    ELSE IF answer = S_1 THEN "male"
    ELSE "female"

\* C17: the default voice is resolved from file names only: male when the
\* configured default's file name equals the male voice's file name, female
\* when it equals the female one, female when it matches neither; the voice
\* model used is the configured male or female path, by the final choice.
C17_VoiceByFileName ==
    (entry = "main" /\ pc = "avatar") =>
        /\ value \in {<<>>, S_1, S_2}
        /\ voice_model = (IF FinalVoice(value) = "male" THEN PIPER_VOICE_MALE
                          ELSE PIPER_VOICE_FEMALE)

C17_Witness ==
    /\ entry = "main" /\ pc = "avatar" /\ value = <<>>
    /\ PIPER_VOICE_DEFAULT = <<"alt", "pt_PT-tugao-medium.onnx">>
    /\ voice_model = PIPER_VOICE_MALE

----------------------------------------------------------------------------
(* setup.py: SadTalkerSetup *)

\* lines 27-28
checkpoints_dir == <<"models", "checkpoints">>
gfpgan_weights_dir == <<"models", "gfpgan", "weights">>
\* line 81
req_file == <<"requirements.txt">>

\* lines 175-211, in the order of the loop at line 214
ModelFiles ==
    <<checkpoints_dir \o <<"mapping_00109-model.pth.tar">>,
      checkpoints_dir \o <<"mapping_00229-model.pth.tar">>,
      checkpoints_dir \o <<"SadTalker_V0.0.2_256.safetensors">>,
      checkpoints_dir \o <<"SadTalker_V0.0.2_512.safetensors">>,
      gfpgan_weights_dir \o <<"alignment_WFLW_4HG.pth">>,
      gfpgan_weights_dir \o <<"detection_Resnet50_Final.pth">>,
      gfpgan_weights_dir \o <<"GFPGANv1.4.pth">>,
      gfpgan_weights_dir \o <<"parsing_parsenet.pth">> >>

\* lines 227-231: a file or a directory at the path
required_paths == {req_file, checkpoints_dir, gfpgan_weights_dir}
\* lines 242-246
key_files == {ModelFiles[3], ModelFiles[4], ModelFiles[7]}

\* Path.exists()
path_exists(p) == p \in dirs \/ exists(files, p)

\* files of the given size at each path of P
FilesAt(P, sz) == [q \in P |-> [size |-> sz, mtime |-> 0]]

\* _download_file without the clean-up of lines 160-164
download_file_keeping_partial(fs, dest, outcome) ==
    IF exists(fs, dest)
    THEN [files |-> fs, returned |-> TRUE, downloaded |-> FALSE, unlink_raised |-> FALSE]
    ELSE IF outcome = "ok"
    THEN [files |-> Write(fs, File(dest, 2, 0)), returned |-> TRUE,
          downloaded |-> TRUE, unlink_raised |-> FALSE]
    ELSE IF outcome = "unreachable"
    THEN [files |-> fs, returned |-> FALSE, downloaded |-> TRUE, unlink_raised |-> FALSE]
    ELSE [files |-> Write(fs, File(dest, 1, 0)), returned |-> FALSE,
          downloaded |-> TRUE, unlink_raised |-> FALSE]

\* lines 128-169: what _download_file(url, dest) leaves and returns.  A
\* destination that exists is kept.  Otherwise the download completes
\* ("ok"), fails before dest is opened ("unreachable"), or fails after part
\* of it was written ("broken"), and then unlink removes the part or raises
\* OSError ("stuck").
download_file(fs, dest, outcome) ==
    IF exists(fs, dest)
    THEN [files |-> fs, returned |-> TRUE, downloaded |-> FALSE, unlink_raised |-> FALSE]
    ELSE IF outcome = "ok"
    THEN [files |-> Write(fs, File(dest, 2, 0)), returned |-> TRUE,
          downloaded |-> TRUE, unlink_raised |-> FALSE]
    ELSE IF outcome = "stuck"
    THEN [files |-> Write(fs, File(dest, 1, 0)), returned |-> FALSE,
          downloaded |-> TRUE, unlink_raised |-> TRUE]
    ELSE [files |-> fs, returned |-> FALSE, downloaded |-> TRUE, unlink_raised |-> FALSE]

\* No call of _download_file has returned yet.
NoCall == [dest |-> <<>>, returned |-> FALSE, downloaded |-> FALSE, unlink_raised |-> FALSE]

\* lines 262-263 (61-70)
SetupCheckPython ==
    /\ setup.pc = "python"
    /\ \E ok \in BOOLEAN :
          setup' = IF ok THEN [setup EXCEPT !.pc = "requirements"]
                   ELSE [setup EXCEPT !.pc = "returned", !.result = FALSE]
    /\ UNCHANGED <<dirs, files, runs, accesses, runVars>>

\* lines 268-270 (78-97): requirements.txt must exist and pip must succeed
SetupInstallRequirements ==
    /\ setup.pc = "requirements"
    /\ \E pip \in BOOLEAN :
          setup' = IF exists(files, req_file) /\ pip
                   THEN [setup EXCEPT !.pc = "download"]
                   ELSE [setup EXCEPT !.pc = "returned", !.result = FALSE]
    /\ UNCHANGED <<dirs, files, runs, accesses, runVars>>

\* lines 213-216: one turn of the loop, with _download_file (128-169)
SetupDownloadFile ==
    /\ setup.pc = "download"
    /\ setup.i <= Len(ModelFiles)
    /\ \E outcome \in {"ok", "unreachable", "broken", "stuck"} :
          LET dest == ModelFiles[setup.i]
              r == download_file(files, dest, outcome)
          IN  /\ dirs' = dirs \cup WithParents(dirname(dest))
              /\ files' = r.files
              /\ setup' = [setup EXCEPT !.i = @ + 1, !.all_ok = @ /\ r.returned,
                                        !.last = [dest |-> dest, returned |-> r.returned,
                                                  downloaded |-> r.downloaded,
                                                  unlink_raised |-> r.unlink_raised]]
    /\ UNCHANGED <<runs, accesses, runVars>>

\* lines 143-158: the user interrupts a download after part of dest was
\* written; KeyboardInterrupt is not an Exception, so the handler at line 158
\* does not run and setup.py ends with the traceback
SetupDownloadInterrupted ==
    /\ setup.pc = "download"
    /\ setup.i <= Len(ModelFiles)
    /\ ~exists(files, ModelFiles[setup.i])
    /\ dirs' = dirs \cup WithParents(dirname(ModelFiles[setup.i]))
    /\ files' = Write(files, File(ModelFiles[setup.i], 1, 0))
    /\ setup' = [setup EXCEPT !.pc = "interrupted"]
    /\ UNCHANGED <<runs, accesses, runVars>>

\* lines 218-222: download_models returns all_ok; run_complete_setup (line
\* 272) drops it and goes on to verify
SetupDownloadsDone ==
    /\ setup.pc = "download"
    /\ setup.i > Len(ModelFiles)
    /\ setup' = IF setup.mode = "complete" THEN [setup EXCEPT !.pc = "verify"]
                ELSE [setup EXCEPT !.pc = "returned", !.result = setup.all_ok]
    /\ UNCHANGED <<dirs, files, runs, accesses, runVars>>

\* lines 224-256: what verify_setup returns
verify_setup ==
    /\ \A p \in required_paths : path_exists(p)
    /\ \A f \in key_files : path_exists(f)

\* lines 273-280, and --verify (line 293)
SetupVerify ==
    /\ setup.pc = "verify"
    /\ setup' = [setup EXCEPT !.pc = "returned", !.result = verify_setup]
    /\ UNCHANGED <<dirs, files, runs, accesses, runVars>>

\* What is on disk when setup.py starts: a fresh checkout or an earlier
\* complete download, with or without requirements.txt and the two voices.
SetupInit ==
    /\ InitNoRun
    /\ runs = <<>> /\ accesses = {}
    /\ \E mode \in {"complete", "models", "verify"} :
          setup = [pc |-> CASE mode = "complete" -> "python"
                            [] mode = "models" -> "download"
                            [] OTHER -> "verify",
                   mode |-> mode, i |-> 1, all_ok |-> TRUE, result |-> FALSE,
                   last |-> NoCall]
    /\ \E models \in {{}, {ModelFiles[i] : i \in 1..Len(ModelFiles)}},
          voices \in {{}, {PIPER_VOICE_MALE, PIPER_VOICE_FEMALE}},
          req \in {{}, {req_file}} :
          /\ files = FilesAt(models \cup voices \cup req, 2)
          /\ dirs = UNION {WithParents(dirname(p)) : p \in models \cup voices}

SetupNext ==
    \/ SetupCheckPython
    \/ SetupInstallRequirements
    \/ SetupDownloadFile
    \/ SetupDownloadInterrupted
    \/ SetupDownloadsDone
    \/ SetupVerify

SpecSetup == SetupInit /\ [][SetupNext]_vars

\* every file the pipeline requires: both voices and every file setup downloads
RequiredFiles ==
    {PIPER_VOICE_MALE, PIPER_VOICE_FEMALE} \cup {ModelFiles[i] : i \in 1..Len(ModelFiles)}

\* C18: whenever setup reports success (run_complete_setup or verify_setup
\* returns true), every file the pipeline requires exists at its configured
\* path: both voice-model files and every checkpoint file setup downloads.
C18_SuccessMeansAllFiles ==
    (setup.pc = "returned" /\ setup.mode \in {"complete", "verify"} /\ setup.result) =>
        \A p \in RequiredFiles : exists(files, p)

\* C19: provided every invoked external process eventually exits and the user
\* eventually gives a valid answer to each prompt, every run (of main.py or
\* cli.py) eventually reaches one of the two terminal states, Done or Failed,
\* and a run in a terminal state takes no further step.
C19_RunTerminates ==
    /\ (entry \in {"main", "cli"}) => <>(pc \in {"done", "failed"})
    /\ [][pc \notin {"done", "failed"}]_vars

C19_Witness ==
    /\ entry = "cli" /\ pc = "done" /\ reported # <<>> /\ ~ENABLED Next

\* C20: when the environment-supplied default for a parameter is not a member
\* of the parameter's domain, it is ignored: an empty input resolves to the
\* built-in default (crop, 256, none, 1).
C20_InvalidDefaultIgnored ==
    [][entry = "main" =>
         \A r \in Resolutions :
             (pc = r.at /\ pc' = r.to /\ value' = <<>> /\ r.e # <<>> /\ ~r.valid) =>
                 r.got = r.builtin]_vars

\* run r is allocating its workspace and takes a step
AllocationStep(r) ==
    /\ runs[r].pc \in {"root", "root_exists", "workspace"}
    /\ runs'[r].pc # runs[r].pc

\* C21: creating the results root is idempotent and race-free.  Allocation
\* succeeds whether the root is absent or present, also when a concurrent run
\* creates it before this run's own attempt; and what is already under the
\* root (other runs' subtrees) is left as it was.
C21_RootCreationIdempotent ==
    /\ [](\A r \in Runs :
            /\ runs[r].pc # "alloc_failed"
            /\ runs[r].pc \notin {"root", "root_exists"} => result_root \in dirs)
    /\ [][\A r \in Runs :
            AllocationStep(r) =>
                /\ dirs \subseteq dirs'
                /\ \A f \in DOMAIN files : exists(files', f) /\ files'[f] = files[f]]_vars

C21_Witness ==
    /\ Access(1, "create", result_root) \in accesses
    /\ runs[2].pc = "workspace" /\ runs[1].pc = "locate"
    /\ \E f \in DOMAIN files : IsUnder(f, RunResultDir(1))

\* setup.py makes one call of _download_file in this step
DownloadStep == setup.pc = "download" /\ setup'.pc = "download" /\ setup'.i = setup.i + 1

\* what holds of every call whatever the removal does: an existing
\* destination is kept as it is and nothing is fetched; True means the
\* destination exists; no other file is touched
DownloadKeepsAndReports ==
    LET dest == ModelFiles[setup.i]
        call == setup'.last
    IN  /\ call.dest = dest
        /\ exists(files, dest) =>
              /\ files' = files
              /\ ~call.downloaded
              /\ call.returned
        /\ call.returned => exists(files', dest)
        /\ \A f \in DOMAIN files : exists(files', f) /\ files'[f] = files[f]
        /\ DOMAIN files' \subseteq DOMAIN files \cup {dest}

\* a file that holds only part of a download
IsPartial(fs, f) == exists(fs, f) /\ fs[f].size < 2

\* C22: _download_file never leaves a partial file behind and never
\* overwrites an existing one: an existing destination is left unchanged and
\* no download is made; False implies the destination does not exist; True
\* implies it exists.
C22_NoPartialFile ==
    /\ [][DownloadStep =>
             /\ DownloadKeepsAndReports
             /\ ~setup'.last.returned => ~exists(files', ModelFiles[setup.i])]_vars
    /\ [][\A i \in 1..Len(ModelFiles) :
             ~IsPartial(files', ModelFiles[i])]_vars

\* C22 as amended: as above, but after a failed download the destination is
\* absent only when removing it succeeded; when unlink raises OSError the
\* error is dropped, the part that was written stays and False is returned.
\* A partial file appears in no other way, except that a download cut short
\* by the user's interrupt returns nothing and leaves its part behind.
C22_NoPartialFileUnlessUnlinkFails ==
    /\ [][DownloadStep =>
             /\ DownloadKeepsAndReports
             /\ (~setup'.last.returned /\ ~setup'.last.unlink_raised) =>
                   ~exists(files', ModelFiles[setup.i])
             /\ setup'.last.unlink_raised =>
                   /\ ~setup'.last.returned
                   /\ IsPartial(files', ModelFiles[setup.i])]_vars
    /\ [][\A i \in 1..Len(ModelFiles) :
             (IsPartial(files', ModelFiles[i]) /\ ~IsPartial(files, ModelFiles[i])) =>
                 /\ i = setup.i
                 /\ \/ DownloadStep /\ setup'.last.unlink_raised
                    \/ setup'.pc = "interrupted"]_vars

C22_Witness ==
    /\ setup.pc = "download" /\ setup.i = 3
    /\ setup.last.downloaded /\ ~setup.last.returned /\ ~setup.last.unlink_raised
    /\ ~exists(files, setup.last.dest)
    /\ exists(files, ModelFiles[1])

====
